---- MODULE Spec2Model ----
(***************************************************************************)
(* Pagination drivers of pytok: User.videos and User.liked                 *)
(* (src/TikTokApi/api/user.py) and Search.search_type                      *)
(* (src/pytok/api/search.py), each a generator run by a consumer that      *)
(* keeps pulling.  One run of one operation is modelled; the browser, the  *)
(* site and the waiter are the environment and choose their outcomes.      *)
(***************************************************************************)
EXTENDS Integers, Sequences, FiniteSets, TLC

\* ---------------------------------------------------------------- bounds
MaxCount  == 3      \* requested counts 0..MaxCount
MaxItems  == 2      \* items in one response 0..MaxItems
MaxBuffer == 2      \* requests the browser session intercepts in one run
MaxNew    == 2      \* requests one browser interaction can add
MaxRequestNum == 3  \* request_num is only compared with 1; larger values are identified

None == "None"

\* ------------------------------------------------------- the environment
ProfileUrl == "tiktok.com/@alice"
ApiUrls    == {"api?cursor=1", "api?cursor=2"}
Cursors    == {0, 1}

\* A response body: decodable JSON with n items and a has-more flag, the
\* captcha-denial envelope {"type": "verify"}, an undecodable body, or an
\* empty one.
JsonBodies  == [kind : {"json"}, n : 0..MaxItems, has_more : BOOLEAN]
OtherBodies == [kind : {"verify", "bad", "empty"}, n : {0}, has_more : {FALSE}]
Bodies      == JsonBodies \cup OtherBodies

ProfileRequests == [url : {ProfileUrl}, body : Bodies]
ApiRequests     == [url : ApiUrls, body : Bodies]

\* What one browser interaction adds to the intercepted traffic: up to MaxNew
\* requests, while the session's buffer has room.
NewRequests(reqs, room) ==
    {<<>>} \cup (IF room >= 1 THEN {<<r>> : r \in reqs} ELSE {})
           \cup (IF room >= 2 /\ MaxNew >= 2
                   THEN {<<r, q>> : r \in reqs, q \in reqs} ELSE {})
           \cup (IF room >= 3 /\ MaxNew >= 3
                   THEN {<<r, q, t>> : r \in reqs, q \in reqs, t \in reqs} ELSE {})

Captured(buf, reqs) ==
    {buf \o new : new \in NewRequests(reqs, MaxBuffer - Len(buf))}

WaitOutcomes == {"content", "captcha", "timeout"}

\* The identifiers of the items of the response at position k of the buffer,
\* in the source's array order.
Items(k, n) == [j \in 1..n |-> <<k, j>>]

\* ---------------------------------------------------- video normalization
MaxPasses == 2      \* normalization passes made over one record

\* A createTime as the site sends it: a number, a numeric string, or a
\* string that is no number (v = -1).
CreateTimes ==
    { [t |-> "int", v |-> 1690000000], [t |-> "str", v |-> 1690000000],
      [t |-> "str", v |-> -1] }

\* An entry of the users-map.
UserEntries ==
    [signature : {"", "hi"}, verified : BOOLEAN, secret : {FALSE},
     ftc : {FALSE}, relation : {0}, openFavorite : {TRUE},
     commentSetting : {0}, duetSetting : {1}, stitchSetting : {2},
     privateAccount : BOOLEAN]

UsersMaps == [{"alice"} -> UserEntries] \cup [{"alice", "bob"} -> UserEntries]

NoAuthor ==
    [id |-> None, uniqueId |-> None, nickname |-> None, avatarThumb |-> None,
     signature |-> None, verified |-> None, secUid |-> None, secret |-> None,
     ftc |-> None, relation |-> None, openFavorite |-> None,
     commentSetting |-> None, duetSetting |-> None, stitchSetting |-> None,
     privateAccount |-> None]

\* The author field: a unique name (raw) or the assembled object (normalized).
AuthorName(n) == [t |-> "str", name |-> n, obj |-> NoAuthor]

RawVideos ==
    [createTime : CreateTimes, author : {AuthorName("alice"), AuthorName("bob")},
     authorId : {"1", "2"}, nickname : {"Alice"}, avatarThumb : {"a.jpg"},
     authorSecId : {"s1"}]

NoVideo ==
    [createTime |-> [t |-> "int", v |-> 0], author |-> AuthorName(None),
     authorId |-> None, nickname |-> None, avatarThumb |-> None,
     authorSecId |-> None]

VARIABLES
    op,               \* "videos" | "liked" | "search"
    count,            \* the requested count
    pc,               \* position of the generator
    buffer,           \* requests intercepted since the navigation
    request_num,      \* User.videos
    amount_yielded,
    searched_urls,    \* User.videos
    processed_urls,   \* Search.search_type
    search_requests,  \* positions in buffer of the requests of this cycle
    idx,              \* position of the for loop in search_requests
    consumed,         \* positions in buffer of the requests processed so far
    pull_method,      \* Search.search_type: 'browser' | 'requests'
    yielded,          \* the items handed to the consumer so far
    username, user_id, sec_uid,      \* the User's triple
    cursor, first, query, res,       \* User.liked
    requests_sent,    \* favorite-list requests issued (0, 1, 2 = two or more)
    outcome,          \* why the run ended
    delayed,          \* request_delay ran since the last page fetch
    fetched,          \* a page fetch (scroll cycle or get_data) has happened
    no_more,          \* 0, or 1 / 2: has-more false was processed on the first / a later page
    calls,            \* __find_attributes: the calls made, in order
    search_results,   \* __find_attributes: what the search by username returned
    exc,              \* the exception that left __find_attributes, if any
    page_status,      \* pageProps.statusCode of the fetched profile page (-1: none)
    privacy_logged,   \* times "User's likes are most likely private" was logged
    cursor0,          \* the cursor the caller gave to User.liked
    raw,              \* normalization: the raw video as received
    video,            \* normalization: the video record, normalized in place
    users,            \* normalization: res["UserModule"]["users"]
    norm_count,       \* normalization: passes made over the record
    norm_status,      \* normalization: "ok" or the exception of the last pass
    last              \* what the last step did

vars == <<op, count, pc, buffer, request_num, amount_yielded, searched_urls,
          processed_urls, search_requests, idx, consumed, pull_method, yielded,
          username,
          user_id,
          sec_uid, cursor, first, query, res, requests_sent, outcome, delayed,
          fetched, no_more, calls, search_results, exc, page_status, privacy_logged, cursor0,
          raw, video, users, norm_count, norm_status, last>>

browserVars == <<buffer, request_num, searched_urls, processed_urls,
                 search_requests, idx, consumed>>
userVars    == <<username, user_id, sec_uid>>
likedVars   == <<cursor, first, query, res, requests_sent, privacy_logged,
                 cursor0>>
resolveVars == <<calls, search_results, exc, page_status>>
normVars    == <<raw, video, users, norm_count, norm_status>>

NoQuery == [id |-> None, secUid |-> None, cursor |-> 0]
NoRes   == [itemList |-> FALSE, n |-> 0, hasMore |-> FALSE, cursor |-> 0]
NoSearch == [returned |-> FALSE, term |-> None, users |-> <<>>]
NoExc   == [type |-> None, names |-> None]

\* User.__init__ stores whatever subset of the triple the caller gives.
Init ==
    /\ op \in {"videos", "liked", "search"}
    /\ count \in 0..MaxCount
    /\ pc = "start"
    /\ buffer = <<>>
    /\ request_num = 0
    /\ amount_yielded = 0
    /\ searched_urls = {}
    /\ processed_urls = {}
    /\ search_requests = <<>>
    /\ idx = 0
    /\ consumed = {}
    /\ pull_method = None
    /\ yielded = <<>>
    /\ IF op = "liked"
         THEN /\ username \in {None, "alice"}
              /\ user_id \in {None, "1"}
              /\ sec_uid \in {None, "s1"}
              /\ cursor \in Cursors
         ELSE /\ username = "alice"
              /\ user_id = None
              /\ sec_uid = None
              /\ cursor = 0
    /\ cursor0 = cursor
    /\ privacy_logged = 0
    /\ first = TRUE
    /\ query = NoQuery
    /\ res = NoRes
    /\ requests_sent = 0
    /\ outcome = "none"
    /\ delayed = FALSE
    /\ fetched = FALSE
    /\ no_more = 0
    /\ calls = <<>>
    /\ search_results = NoSearch
    /\ exc = NoExc
    /\ page_status = -1
    /\ raw = NoVideo
    /\ video = NoVideo
    /\ users = [n \in {} |-> NoAuthor]
    /\ norm_count = 0
    /\ norm_status = "ok"
    /\ last = "none"

\* Response Capture: the requests observed since the navigation whose URL
\* contains the path, in observation order (positions in the buffer).
UrlContains(url, path) ==
    IF path = "@username" THEN url = ProfileUrl ELSE url \in ApiUrls

get_requests(path) ==
    SelectSeq([k \in 1..Len(buffer) |-> k],
              LAMBDA k : UrlContains(buffer[k].url, path))

Min(a, b) == IF a < b THEN a ELSE b

\* ------------------------------------------------------------ User.videos
VideosNavigate ==
    /\ op = "videos" /\ pc = "start"
    /\ \E r \in ProfileRequests : buffer' = <<r>>
    /\ pc' = "wait_first"
    /\ last' = "navigate"
    /\ UNCHANGED <<op, count, normVars, resolveVars, pull_method, consumed, request_num, amount_yielded, searched_urls,
                   processed_urls, search_requests, idx, yielded, userVars,
                   likedVars, outcome, delayed, fetched, no_more>>

\* wait_for_content_or_captcha('user-post-item'), then lines 145-147.
VideosWaitForContent ==
    /\ op = "videos" /\ pc = "wait_first"
    /\ \E w \in WaitOutcomes :
         IF w = "content"
           THEN /\ pc' = "loop"
                /\ request_num' = 1
                /\ outcome' = outcome
                /\ last' = "wait_ok"
           ELSE /\ pc' = "error"
                /\ request_num' = request_num
                /\ outcome' = "first_page_error"
                /\ last' = "wait_failed"
    /\ UNCHANGED <<op, count, normVars, resolveVars, pull_method, consumed, buffer, amount_yielded, searched_urls,
                   processed_urls, search_requests, idx, yielded, userVars,
                   likedVars, delayed, fetched, no_more>>

VideosPath == IF request_num = 1 THEN "@username" ELSE "api/post/item_list"

\* The loop test and get_requests(path).
VideosLoopHead ==
    /\ op = "videos" /\ pc = "loop"
    /\ IF amount_yielded < count
         THEN /\ search_requests' = get_requests(VideosPath)
              /\ idx' = 1
              /\ pc' = IF search_requests' = <<>> THEN "scroll" ELSE "for"
              /\ outcome' = outcome
              /\ last' = "capture"
         ELSE /\ pc' = "done"
              /\ outcome' = "count"
              /\ last' = "count_reached"
              /\ UNCHANGED <<search_requests, idx>>
    /\ UNCHANGED <<op, count, normVars, resolveVars, pull_method, consumed, buffer, request_num, amount_yielded,
                   searched_urls, processed_urls, yielded, userVars, likedVars,
                   delayed, fetched, no_more>>

\* What the body of the for loop does with one captured request:
\* "raise" (an exception leaves the generator), "skip" (continue), or
\* "page" (its items are yielded and has-more is consulted).
VideosDisposition(body) ==
    IF body.kind = "empty" THEN "raise"
    ELSE IF request_num = 1
           THEN IF body.kind = "json" THEN "page" ELSE "raise"
           ELSE IF body.kind = "bad" THEN "raise"
                ELSE IF body.kind = "verify" THEN "skip"
                ELSE "page"

\* Lines 199-208: the run returns when the page reports no more items.
VideosStops(body) == ~body.has_more

VideosProcessRequest ==
    /\ op = "videos" /\ pc = "for" /\ idx <= Len(search_requests)
    /\ LET k == search_requests[idx]
           r == buffer[k]
           d == VideosDisposition(r.body)
           more == Len(search_requests) > idx
       IN  /\ searched_urls' = searched_urls \cup {r.url}
           /\ consumed' = consumed \cup {k}
           /\ CASE d = "raise" ->
                     /\ pc' = "error"
                     /\ outcome' = IF request_num = 1 THEN "first_page_error"
                                                     ELSE "later_page_error"
                     /\ last' = "raised"
                     /\ UNCHANGED <<amount_yielded, yielded, idx, no_more>>
                [] d = "skip" ->
                     /\ pc' = IF more THEN "for" ELSE "scroll"
                     /\ idx' = idx + 1
                     /\ last' = "skip_verify"
                     /\ UNCHANGED <<amount_yielded, yielded, outcome, no_more>>
                [] d = "page" ->
                     /\ amount_yielded' = amount_yielded + r.body.n
                     /\ yielded' = yielded \o Items(k, r.body.n)
                     /\ no_more' = IF r.body.has_more THEN no_more
                                   ELSE IF request_num = 1 THEN 1 ELSE 2
                     /\ IF VideosStops(r.body)
                          THEN /\ pc' = "done"
                               /\ outcome' = "has_more_false"
                               /\ idx' = idx
                               /\ last' = "last_page"
                          ELSE /\ pc' = IF more THEN "for" ELSE "scroll"
                               /\ idx' = idx + 1
                               /\ last' = "page"
                               /\ outcome' = outcome
    /\ UNCHANGED <<op, count, normVars, resolveVars, pull_method, buffer, request_num, processed_urls,
                   search_requests, userVars, likedVars, delayed, fetched>>

\* scroll_to_bottom: the page loads the next batch, which the session intercepts.
VideosScroll ==
    /\ op = "videos" /\ pc = "scroll"
    /\ buffer' \in Captured(buffer, ApiRequests)
    /\ pc' = "wait_next"
    /\ fetched' = TRUE
    /\ delayed' = FALSE
    /\ last' = "scroll"
    /\ UNCHANGED <<op, count, normVars, resolveVars, pull_method, consumed, request_num, amount_yielded, searched_urls,
                   processed_urls, search_requests, idx, yielded, userVars,
                   likedVars, outcome, no_more>>

\* wait_until_not_skeleton_or_captcha, then request_num += 1.
VideosWaitNotSkeleton ==
    /\ op = "videos" /\ pc = "wait_next"
    /\ \E w \in WaitOutcomes :
         IF w = "content"
           THEN /\ pc' = "delay"
                /\ request_num' = Min(request_num + 1, MaxRequestNum)
                /\ outcome' = outcome
                /\ last' = "wait_ok"
           ELSE /\ pc' = "error"
                /\ request_num' = request_num
                /\ outcome' = "later_page_error"
                /\ last' = "wait_failed"
    /\ UNCHANGED <<op, count, normVars, resolveVars, pull_method, consumed, buffer, amount_yielded, searched_urls,
                   processed_urls, search_requests, idx, yielded, userVars,
                   likedVars, delayed, fetched, no_more>>

VideosRequestDelay ==
    /\ op = "videos" /\ pc = "delay"
    /\ pc' = "loop"
    /\ delayed' = TRUE
    /\ last' = "delay"
    /\ UNCHANGED <<op, count, normVars, resolveVars, pull_method, consumed, buffer, request_num, amount_yielded,
                   searched_urls, processed_urls, search_requests, idx, yielded,
                   userVars, likedVars, outcome, fetched, no_more>>

\* ------------------------------------------------------ Search.search_type
\* page.goto(url): the search page may already issue its first api/search call.
SearchNavigate ==
    /\ op = "search" /\ pc = "start"
    /\ buffer' \in Captured(<<>>, ApiRequests)
    /\ pc' = "wait_first"
    /\ last' = "navigate"
    /\ UNCHANGED <<op, count, normVars, resolveVars, pull_method, consumed, request_num, amount_yielded, searched_urls,
                   processed_urls, search_requests, idx, yielded, userVars,
                   likedVars, outcome, delayed, fetched, no_more>>

\* The direct-HTTP method chosen at the start.
InitialPullMethod_Requests == "requests"

\* Line 97.
InitialPullMethod == "browser"

\* The failure of the first wait swallowed: the loop is entered all the same.
SearchWaitForContent_Swallowed ==
    /\ op = "search" /\ pc = "wait_first"
    /\ \E w \in WaitOutcomes :
         /\ pc' = "loop"
         /\ pull_method' = InitialPullMethod
         /\ outcome' = outcome
         /\ last' = IF w = "content" THEN "wait_ok" ELSE "wait_failed"
    /\ UNCHANGED <<op, count, normVars, resolveVars, consumed, buffer, request_num, amount_yielded,
                   searched_urls, processed_urls, search_requests, idx, yielded,
                   userVars, likedVars, delayed, fetched, no_more>>

\* wait_for_content_or_captcha, then lines 95-99.
SearchWaitForContent ==
    /\ op = "search" /\ pc = "wait_first"
    /\ \E w \in WaitOutcomes :
         IF w = "content"
           THEN /\ pc' = "loop"
                /\ pull_method' = InitialPullMethod
                /\ outcome' = outcome
                /\ last' = "wait_ok"
           ELSE /\ pc' = "error"
                /\ pull_method' = pull_method
                /\ outcome' = "first_page_error"
                /\ last' = "wait_failed"
    /\ UNCHANGED <<op, count, normVars, resolveVars, consumed, buffer, request_num, amount_yielded,
                   searched_urls, processed_urls, search_requests, idx, yielded,
                   userVars, likedVars, delayed, fetched, no_more>>

SearchLoopHead ==
    /\ op = "search" /\ pc = "loop"
    /\ IF amount_yielded < count
         THEN /\ pc' = "delay1"
              /\ outcome' = outcome
              /\ last' = "loop"
         ELSE /\ pc' = "done"
              /\ outcome' = "count"
              /\ last' = "count_reached"
    /\ UNCHANGED <<op, count, normVars, resolveVars, pull_method, consumed, buffer, request_num, amount_yielded,
                   searched_urls, processed_urls, search_requests, idx, yielded,
                   userVars, likedVars, delayed, fetched, no_more>>

\* The three request_delay calls of one iteration (lines 102, 136, 138).
AfterDelay(p) ==
    IF p = "delay1" THEN "capture" ELSE IF p = "delay2" THEN "scroll_up" ELSE "scroll"

SearchRequestDelay ==
    /\ op = "search" /\ pc \in {"delay1", "delay2", "delay3"}
    /\ pc' = AfterDelay(pc)
    /\ delayed' = TRUE
    /\ last' = "delay"
    /\ UNCHANGED <<op, count, normVars, resolveVars, pull_method, consumed, buffer, request_num, amount_yielded,
                   searched_urls, processed_urls, search_requests, idx, yielded,
                   userVars, likedVars, outcome, fetched, no_more>>

\* Line 106: the captured requests whose URL is not in processed_urls.
NotProcessed(reqs) ==
    SelectSeq(reqs, LAMBDA k : buffer[k].url \notin processed_urls)

\* What the direct HTTP request of the 'requests' method can answer.
DirectResponses == JsonBodies \cup [kind : {"verify"}, n : {0}, has_more : {FALSE}]

\* Lines 104-106, the capture of the 'browser' method; under the 'requests'
\* method lines 144-170 instead: res and request of an earlier iteration are
\* read (unbound when no request was processed yet), the next page is fetched
\* directly, a captcha denial switches back to 'browser'.
SearchGetRequests ==
    /\ op = "search" /\ pc = "capture"
    /\ IF pull_method = "browser"
         THEN /\ search_requests' = NotProcessed(get_requests("api/search"))
              /\ idx' = 1
              /\ pc' = IF search_requests' = <<>> THEN "delay2" ELSE "for"
              /\ last' = "capture"
              /\ UNCHANGED <<pull_method, amount_yielded, yielded, outcome, no_more>>
         ELSE IF consumed = {}
           THEN /\ pc' = "error"
                /\ outcome' = "first_page_error"
                /\ last' = "direct_http_unbound"
                /\ UNCHANGED <<pull_method, search_requests, idx, amount_yielded,
                               yielded, no_more>>
           ELSE \E body \in DirectResponses :
                  /\ last' = "direct_http"
                  /\ UNCHANGED <<search_requests, idx>>
                  /\ IF body.kind = "verify"
                       THEN /\ pull_method' = "browser"
                            /\ pc' = "loop"
                            /\ UNCHANGED <<amount_yielded, yielded, outcome, no_more>>
                       ELSE /\ pull_method' = pull_method
                            /\ amount_yielded' = amount_yielded + body.n
                            /\ yielded' = yielded \o Items(0, body.n)
                            /\ no_more' = IF body.has_more THEN no_more ELSE 2
                            /\ pc' = IF ~body.has_more THEN "done" ELSE "loop"
                            /\ outcome' = IF ~body.has_more THEN "has_more_false"
                                                            ELSE outcome
    /\ UNCHANGED <<op, count, normVars, resolveVars, consumed, buffer, request_num,
                   searched_urls, processed_urls, userVars, likedVars,
                   delayed, fetched>>

\* The captcha-denial envelope handled as an ordinary page.
SearchDisposition_VerifyAsPage(body) ==
    IF body.kind = "empty" THEN "raise"
    ELSE IF body.kind = "bad" THEN "skip_bad"
    ELSE "page"

SearchDisposition(body) ==
    IF body.kind = "empty" THEN "raise"
    ELSE IF body.kind = "bad" THEN "skip_bad"
    ELSE IF body.kind = "verify" THEN "skip"
    ELSE "page"

\* The has-more test dropped.
SearchStops_Never(body) == FALSE

\* Lines 128-132: res.get("has_more", 0) == 0 ends the run.
SearchStops(body) == ~body.has_more

SearchProcessRequest ==
    /\ op = "search" /\ pc = "for" /\ idx <= Len(search_requests)
    /\ LET k == search_requests[idx]
           r == buffer[k]
           d == SearchDisposition(r.body)
           more == Len(search_requests) > idx
       IN  /\ processed_urls' = processed_urls \cup {r.url}
           /\ consumed' = consumed \cup {k}
           /\ CASE d = "raise" ->
                     /\ pc' = "error"
                     /\ outcome' = IF fetched THEN "later_page_error"
                                              ELSE "first_page_error"
                     /\ last' = "raised"
                     /\ UNCHANGED <<amount_yielded, yielded, idx, no_more>>
                [] d \in {"skip", "skip_bad"} ->
                     /\ pc' = IF more THEN "for" ELSE "delay2"
                     /\ idx' = idx + 1
                     /\ last' = IF d = "skip" THEN "skip_verify" ELSE "skip_bad"
                     /\ UNCHANGED <<amount_yielded, yielded, outcome, no_more>>
                [] d = "page" ->
                     /\ amount_yielded' = amount_yielded + r.body.n
                     /\ yielded' = yielded \o Items(k, r.body.n)
                     /\ no_more' = IF r.body.has_more THEN no_more
                                   ELSE IF fetched THEN 2 ELSE 1
                     /\ IF SearchStops(r.body)
                          THEN /\ pc' = "done"
                               /\ outcome' = "has_more_false"
                               /\ idx' = idx
                               /\ last' = "last_page"
                          ELSE /\ pc' = IF more THEN "for" ELSE "delay2"
                               /\ idx' = idx + 1
                               /\ last' = "page"
                               /\ outcome' = outcome
    /\ UNCHANGED <<op, count, normVars, resolveVars, pull_method, buffer, request_num, searched_urls,
                   search_requests, userVars, likedVars, delayed, fetched>>

SearchSlightScrollUp ==
    /\ op = "search" /\ pc = "scroll_up"
    /\ pc' = "delay3"
    /\ last' = "scroll_up"
    /\ UNCHANGED <<op, count, normVars, resolveVars, pull_method, consumed, buffer, request_num, amount_yielded,
                   searched_urls, processed_urls, search_requests, idx, yielded,
                   userVars, likedVars, outcome, delayed, fetched, no_more>>

\* scroll_to_bottom(speed=8)
SearchScroll ==
    /\ op = "search" /\ pc = "scroll"
    /\ buffer' \in Captured(buffer, ApiRequests)
    /\ pc' = "wait_next"
    /\ fetched' = TRUE
    /\ delayed' = FALSE
    /\ last' = "scroll"
    /\ UNCHANGED <<op, count, normVars, resolveVars, pull_method, consumed, request_num, amount_yielded, searched_urls,
                   processed_urls, search_requests, idx, yielded, userVars,
                   likedVars, outcome, no_more>>

SearchWaitNotSkeleton ==
    /\ op = "search" /\ pc = "wait_next"
    /\ \E w \in WaitOutcomes :
         IF w = "content"
           THEN /\ pc' = "loop"
                /\ outcome' = outcome
                /\ last' = "wait_ok"
           ELSE /\ pc' = "error"
                /\ outcome' = "later_page_error"
                /\ last' = "wait_failed"
    /\ UNCHANGED <<op, count, normVars, resolveVars, pull_method, consumed, buffer, request_num, amount_yielded,
                   searched_urls, processed_urls, search_requests, idx, yielded,
                   userVars, likedVars, delayed, fetched, no_more>>

\* --------------------------------------------------------------- User.liked
\* Lines 235-242: __find_attributes is called only when both ids are unset.
LikedStart ==
    /\ op = "liked" /\ pc = "start"
    /\ pc' = IF user_id = None /\ sec_uid = None THEN "find_search" ELSE "loop"
    /\ last' = "start"
    /\ UNCHANGED <<op, count, normVars, resolveVars, pull_method, browserVars, amount_yielded, yielded, userVars,
                   likedVars, outcome, delayed, fetched, no_more>>

\* The users a search by username can return.
SearchUsers ==
    { [username |-> "alice", user_id |-> "1", sec_uid |-> "s1"],
      [username |-> "bob",   user_id |-> "2", sec_uid |-> "s2"] }

SearchResults ==
    {<<>>} \cup {<<u>> : u \in SearchUsers}
           \cup {<<u, v>> : u \in SearchUsers, v \in SearchUsers}

\* Any user of the results taken for the requested one.
Matches_Any(results) == 1..Len(results)

Matches(results) == {k \in 1..Len(results) : results[k].username = username}

FirstMatch(results) ==
    results[CHOOSE k \in Matches(results) : \A m \in Matches(results) : k <= m]

\* __find_attributes, the search loop (lines 310-315).
FindAttributesSearch ==
    /\ op = "liked" /\ pc = "find_search"
    /\ calls' = Append(calls, "search")
    /\ page_status' = page_status
    /\ \/ /\ pc' = "error"
          /\ outcome' = "resolve_error"
          /\ last' = "search_raised"
          /\ search_results' = [returned |-> FALSE, term |-> username, users |-> <<>>]
          /\ exc' = [type |-> "SearchFailed", names |-> None]
          /\ UNCHANGED userVars
       \/ \E results \in SearchResults :
            /\ search_results' = [returned |-> TRUE, term |-> username, users |-> results]
            /\ exc' = exc
            /\ IF Matches(results) # {}
                 THEN /\ user_id' = FirstMatch(results).user_id
                      /\ sec_uid' = FirstMatch(results).sec_uid
                      /\ username' = FirstMatch(results).username
                      /\ pc' = "loop"
                      /\ outcome' = outcome
                      /\ last' = "found_by_search"
                 ELSE /\ pc' = "find_info"
                      /\ outcome' = outcome
                      /\ last' = "not_found_by_search"
                      /\ UNCHANGED userVars
    /\ UNCHANGED <<op, count, normVars, pull_method, browserVars, amount_yielded,
                   yielded, likedVars, delayed, fetched, no_more>>

\* pageProps.statusCode of the decoded profile page.
StatusCodes == {0, 200, 404, 500}

\* pageProps.userInfo["user"] of the profile page of uname.
UserObject(uname) == [id |-> "1", secUid |-> "s1", uniqueId |-> uname]

\* Every error status taken for "does not exist".
info_full_AnyErrorStatus(uname, statusCode) ==
    IF uname = None
      THEN [raised |-> "TypeError", names |-> None, http |-> FALSE, user |-> None]
    ELSE IF statusCode >= 400
      THEN [raised |-> "NotFoundException", names |-> uname, http |-> TRUE,
            user |-> None]
    ELSE [raised |-> None, names |-> None, http |-> TRUE, user |-> UserObject(uname)]

\* info_full (lines 92-121) for a User whose username is uname, when the
\* profile page carries statusCode: the exception raised (None: it returns),
\* the username its message names, whether the HTTP fetch was made, and the
\* user of the userInfo returned.
info_full(uname, statusCode) ==
    IF uname = None
      THEN [raised |-> "TypeError", names |-> None, http |-> FALSE, user |-> None]
    ELSE IF statusCode = 404
      THEN [raised |-> "NotFoundException", names |-> uname, http |-> TRUE,
            user |-> None]
    ELSE [raised |-> None, names |-> None, http |-> TRUE, user |-> UserObject(uname)]

\* __find_attributes, the fallback (lines 317-321): info() -> info_full().
FindAttributesInfo ==
    /\ op = "liked" /\ pc = "find_info"
    /\ \E statusCode \in StatusCodes :
         LET r == info_full(username, statusCode)
         IN  /\ calls' = calls \o (IF r.http THEN <<"info", "http">> ELSE <<"info">>)
             /\ page_status' = IF r.http THEN statusCode ELSE page_status
             /\ IF r.raised # None
                  THEN /\ pc' = "error"
                       /\ outcome' = "resolve_error"
                       /\ exc' = [type |-> r.raised, names |-> r.names]
                       /\ last' = IF r.raised = "TypeError" THEN "type_error"
                                                           ELSE "not_found"
                       /\ UNCHANGED userVars
                  ELSE /\ user_id' = r.user.id
                       /\ sec_uid' = r.user.secUid
                       /\ username' = r.user.uniqueId
                       /\ pc' = "loop"
                       /\ outcome' = outcome
                       /\ exc' = exc
                       /\ last' = "found_by_info"
    /\ search_results' = search_results
    /\ UNCHANGED <<op, count, normVars, pull_method, browserVars, amount_yielded,
                   yielded, likedVars, delayed, fetched, no_more>>

\* What get_data can return for the favorite list.
LikedResponses ==
    [itemList : {TRUE}, n : 0..MaxItems, hasMore : BOOLEAN, cursor : Cursors]
    \cup [itemList : {FALSE}, n : {0}, hasMore : BOOLEAN, cursor : Cursors]

\* get_data(path): one favorite-list fetch; whatever the query, the site
\* answers with one of the responses above.
get_data(q) == LikedResponses

\* The loop test, the query and get_data (lines 244-261).
LikedLoopHead ==
    /\ op = "liked" /\ pc = "loop"
    /\ IF amount_yielded < count
         THEN /\ query' = [id |-> user_id, secUid |-> sec_uid, cursor |-> cursor]
              /\ res' \in get_data(query')
              /\ requests_sent' = Min(requests_sent + 1, 2)
              /\ pc' = "response"
              /\ fetched' = TRUE
              /\ delayed' = FALSE
              /\ outcome' = outcome
              /\ last' = "get_data"
         ELSE /\ pc' = "done"
              /\ outcome' = "count"
              /\ last' = "count_reached"
              /\ UNCHANGED <<query, res, requests_sent, fetched, delayed>>
    /\ UNCHANGED <<op, count, normVars, resolveVars, pull_method, browserVars, amount_yielded, yielded, userVars,
                   cursor, first, no_more, privacy_logged, cursor0>>

\* Lines 269-271: len(videos) is added, then one more per yielded video.
LikedCounted(n) == n + n

\* The has-more test dropped.
LikedStops_Never(r, f) == FALSE

\* Line 274: the has-more test that ends the run.
LikedStops(r, f) == ~r.hasMore /\ ~f

\* The privacy error logged whatever the page.
LikedLogsPrivate_Always(f) == 1

\* Lines 264-265: the privacy error is logged (once) only on the first page.
LikedLogsPrivate(f) == IF f THEN 1 ELSE 0

\* The cursor of the response dropped: the old one is sent again.
NextCursor_Stale(r, c) == c

\* Line 280: the cursor of the response is the cursor of the next request.
NextCursor(r, c) == r.cursor

\* Lines 263-281.
LikedProcessResponse ==
    /\ op = "liked" /\ pc = "response"
    /\ IF ~res.itemList
         THEN /\ pc' = "done"
              /\ outcome' = "no_itemList"
              /\ last' = IF first THEN "likes_private" ELSE "no_itemList"
              /\ privacy_logged' = privacy_logged + LikedLogsPrivate(first)
              /\ UNCHANGED <<amount_yielded, yielded, cursor, first, no_more>>
         ELSE /\ amount_yielded' = amount_yielded + LikedCounted(res.n)
              /\ privacy_logged' = privacy_logged
              /\ yielded' = yielded \o Items(requests_sent, res.n)
              /\ no_more' = IF res.hasMore THEN no_more
                            ELSE IF first THEN 1 ELSE 2
              /\ IF LikedStops(res, first)
                   THEN /\ pc' = "done"
                        /\ outcome' = "has_more_false"
                        /\ last' = "last_page"
                        /\ UNCHANGED <<cursor, first>>
                   ELSE /\ cursor' = NextCursor(res, cursor)
                        /\ first' = FALSE
                        /\ pc' = "loop"
                        /\ outcome' = outcome
                        /\ last' = "page"
    /\ UNCHANGED <<op, count, normVars, resolveVars, pull_method, browserVars, userVars, query, res, requests_sent,
                   delayed, fetched, cursor0>>

Next ==
    \/ VideosNavigate
    \/ VideosWaitForContent
    \/ VideosLoopHead
    \/ VideosProcessRequest
    \/ VideosScroll
    \/ VideosWaitNotSkeleton
    \/ VideosRequestDelay
    \/ SearchNavigate
    \/ SearchWaitForContent
    \/ SearchLoopHead
    \/ SearchRequestDelay
    \/ SearchGetRequests
    \/ SearchProcessRequest
    \/ SearchSlightScrollUp
    \/ SearchScroll
    \/ SearchWaitNotSkeleton
    \/ LikedStart
    \/ FindAttributesSearch
    \/ FindAttributesInfo
    \/ LikedLoopHead
    \/ LikedProcessResponse

Spec == Init /\ [][Next]_vars

\* ----------------------------------------- normalization, User.videos 165-185
mainVars == <<count, pc, buffer, request_num, amount_yielded, searched_urls,
              processed_urls, search_requests, idx, consumed, pull_method,
              yielded, username, user_id, sec_uid, cursor, first, query, res,
              requests_sent, outcome, delayed, fetched, no_more, calls,
              search_results, exc, page_status, privacy_logged, cursor0, last>>

\* A first page holds a raw video and a users-map.
NormInit ==
    /\ op = "normalize"
    /\ count = 0 /\ pc = "start" /\ buffer = <<>> /\ request_num = 0
    /\ amount_yielded = 0 /\ searched_urls = {} /\ processed_urls = {}
    /\ search_requests = <<>> /\ idx = 0 /\ consumed = {} /\ pull_method = None
    /\ yielded = <<>> /\ username = "alice" /\ user_id = None /\ sec_uid = None
    /\ cursor = 0 /\ cursor0 = 0 /\ privacy_logged = 0 /\ first = TRUE
    /\ query = NoQuery /\ res = NoRes /\ requests_sent = 0 /\ outcome = "none"
    /\ delayed = FALSE /\ fetched = FALSE /\ no_more = 0 /\ calls = <<>>
    /\ search_results = NoSearch /\ exc = NoExc /\ page_status = -1
    /\ last = "none"
    /\ raw \in RawVideos
    /\ video = raw
    /\ users \in UsersMaps
    /\ norm_count = 0
    /\ norm_status = "ok"

\* int(video['createTime']) (line 167): "ok" and the integer, or ValueError.
IntOf(c) ==
    IF c.t = "int" THEN [status |-> "ok", value |-> c]
    ELSE IF c.v >= 0 THEN [status |-> "ok", value |-> [t |-> "int", v |-> c.v]]
    ELSE [status |-> "ValueError", value |-> c]

\* Lines 168-185: the author object assembled from the video and the entry of
\* the users-map under the author's name.
AuthorObject(v, entry) ==
    [id |-> v.authorId, uniqueId |-> v.author.name, nickname |-> v.nickname,
     avatarThumb |-> v.avatarThumb, signature |-> entry.signature,
     verified |-> entry.verified, secUid |-> v.authorSecId,
     secret |-> entry.secret, ftc |-> entry.ftc, relation |-> entry.relation,
     openFavorite |-> entry.openFavorite, commentSetting |-> entry.commentSetting,
     duetSetting |-> entry.duetSetting, stitchSetting |-> entry.stitchSetting,
     privateAccount |-> entry.privateAccount]

\* The two ids of the author taken from each other's field.
normalize_video_SwappedIds(v, umap) ==
    [status |-> "ok",
     video |-> [v EXCEPT !.createTime = IntOf(v.createTime).value,
                         !.author = [t |-> "dict", name |-> v.author.name,
                                     obj |-> [AuthorObject(v, umap[v.author.name])
                                                EXCEPT !.id = v.authorSecId,
                                                       !.secUid = v.authorId]]]]

\* One pass of lines 167-185 over a video record, in place: the status and
\* the record it leaves.  An author that is already an object is no key of
\* the users-map (TypeError: unhashable), an unknown name raises KeyError;
\* createTime is assigned before either is met.
normalize_video(v, umap) ==
    LET c == IntOf(v.createTime)
        timed == [v EXCEPT !.createTime = c.value]
    IN  IF c.status # "ok" THEN [status |-> c.status, video |-> v]
        ELSE IF v.author.t # "str" THEN [status |-> "TypeError", video |-> timed]
        ELSE IF v.author.name \notin DOMAIN umap
               THEN [status |-> "KeyError", video |-> timed]
        ELSE [status |-> "ok",
              video |-> [timed EXCEPT !.author =
                           [t |-> "dict", name |-> v.author.name,
                            obj |-> AuthorObject(v, umap[v.author.name])]]]

\* The loop body of lines 166-185 run over the record.
Normalize ==
    /\ op = "normalize" /\ norm_status = "ok" /\ norm_count < MaxPasses
    /\ LET r == normalize_video(video, users)
       IN  /\ video' = r.video
           /\ norm_status' = r.status
    /\ norm_count' = norm_count + 1
    /\ UNCHANGED <<op, raw, users, mainVars>>

NormNext == Normalize

NormSpec == NormInit /\ [][NormNext]_vars

\* With the scheduling of a consumer that keeps pulling: a step that can be
\* taken is taken.
FairSpec == Spec /\ WF_vars(Next)

\* ------------------------------------------------------------------ claims
Ended == pc \in {"done", "error"}

\* A failure before any page was delivered.
FirstPageError ==
    \/ outcome \in {"first_page_error", "resolve_error"}
    \/ outcome = "no_itemList" /\ first

\* C1: a run that ended with fewer than count items yielded ended because a
\* processed response reported has-more false or because the first page failed.
C1_YieldsCountUnlessExhausted ==
    (Ended /\ Len(yielded) < count) =>
        (no_more # 0 \/ FirstPageError)

\* C2: a captured request is processed at most once in a run: the request the
\* for loop is about to process has not been processed before.
C2_RequestNeverReprocessed ==
    (op \in {"videos", "search"} /\ pc = "for" /\ idx <= Len(search_requests)) =>
        search_requests[idx] \notin consumed

AtVerifyEnvelope ==
    /\ op \in {"videos", "search"} /\ pc = "for" /\ idx <= Len(search_requests)
    /\ buffer[search_requests[idx]].body.kind = "verify"
    /\ op = "videos" => request_num > 1

\* C3: the step that processes a captcha-denial envelope yields nothing,
\* leaves the yielded count alone, records no has-more decision and does not
\* end the run: the for loop moves to the next captured request, or on to the
\* next scroll cycle after the last one.
C3_VerifyEnvelopeSkipped ==
    [][AtVerifyEnvelope =>
          /\ yielded' = yielded
          /\ amount_yielded' = amount_yielded
          /\ no_more' = no_more
          /\ outcome' = outcome
          /\ idx' = idx + 1
          /\ pc' = IF idx < Len(search_requests) THEN "for"
                   ELSE IF op = "videos" THEN "scroll" ELSE "delay2"]_vars

C3_Witness ==
    /\ last = "skip_verify"
    /\ pc \in {"for", "scroll", "delay2"}

\* C4: after a captcha or timeout of the wait that follows a scroll, the run
\* has ended normally (no exception reaches the consumer).
C4_LaterWaitFailureEndsGracefully ==
    (op \in {"videos", "search"} /\ last = "wait_failed" /\ fetched) => pc = "done"

\* C5: after a captcha or timeout of the initial wait the run is in ERROR, and
\* nothing was yielded, captured, scrolled or delayed.
C5_FirstWaitFailureIsFatal ==
    (op \in {"videos", "search"} /\ last = "wait_failed" /\ ~fetched) =>
        /\ pc = "error"
        /\ yielded = <<>>
        /\ amount_yielded = 0
        /\ idx = 0 /\ search_requests = <<>>
        /\ ~delayed

C5_Witness ==
    /\ op \in {"videos", "search"}
    /\ last = "wait_failed" /\ ~fetched
    /\ pc = "error"

\* C6 as stated: in User.liked no favorite-list request is issued once a
\* response with hasMore false has been processed, on whatever page.
C6_LikedStopsOnAnyNoMore ==
    [][(op = "liked" /\ no_more # 0) => pc' # "response"]_vars

\* C6 amended: in User.liked, once a response with hasMore false has been
\* processed on a page later than the first the run is DONE and no further
\* favorite-list request is issued.
C6_LikedStopsOnLaterNoMore ==
    /\ []((op = "liked" /\ no_more = 2) => (pc = "done" /\ outcome = "has_more_false"))
    /\ [][(op = "liked" /\ no_more = 2) => pc' # "response"]_vars

C6_Witness ==
    /\ op = "liked" /\ no_more = 2 /\ pc = "done"
    /\ Len(yielded) < count

\* The items of the response the for loop stands at are the last ones yielded.
LastPageYielded ==
    LET k == search_requests[idx]
        n == buffer[k].body.n
    IN  /\ Len(yielded) >= n
        /\ SubSeq(yielded, Len(yielded) - n + 1, Len(yielded)) = Items(k, n)

\* C7: in Search.search_type and User.videos, once a response reporting
\* has-more false has been processed the run is DONE right after that page's
\* items, and no further step (processing, scroll, wait, delay) is taken.
C7_NoMoreTerminates ==
    /\ []((op \in {"videos", "search"} /\ no_more # 0) =>
             (pc = "done" /\ LastPageYielded))
    /\ [][~(op \in {"videos", "search"} /\ no_more # 0)]_vars

C7_Witness ==
    /\ op = "search" /\ no_more # 0 /\ pc = "done"
    /\ Len(yielded) < count

\* C8: every run whose consumer keeps pulling reaches DONE or ERROR.
C8_RunTerminates == <>Ended

AboutToFetch ==
    \/ op \in {"videos", "search"} /\ pc = "scroll"
    \/ op = "liked" /\ pc = "loop" /\ amount_yielded < count

\* C9: when a page fetch is about to follow an earlier one, request_delay has
\* run since that earlier fetch.
C9_DelayBetweenFetches == (AboutToFetch /\ fetched) => delayed

\* C10: a favorite-list request that User.liked issues for a User whose
\* username is known carries both user_id and sec_uid (the missing identifier
\* was resolved before the request was built).
C10_IdsResolvedBeforeRequest ==
    (op = "liked" /\ requests_sent > 0 /\ username # None) =>
        (query.id # None /\ query.secUid # None)

\* The users of the search results whose username equals the requested one.
ExactMatches ==
    {k \in 1..Len(search_results.users) :
        search_results.users[k].username = search_results.term}

FirstExactMatch ==
    search_results.users[CHOOSE k \in ExactMatches : \A m \in ExactMatches : k <= m]

InfoCalled == Len(calls) >= 2

\* C11: __find_attributes calls the search before any profile fetch; info is
\* called only after the search returned no user with exactly the requested
\* username, and always then; on an exact match the triple is the match's and
\* info is not called.
C11_TwoTierResolution ==
    /\ calls \in {<<>>, <<"search">>, <<"search", "info">>,
                  <<"search", "info", "http">>}
    /\ InfoCalled => (search_results.returned /\ ExactMatches = {})
    /\ (search_results.returned /\ ExactMatches = {}) =>
           (InfoCalled \/ pc = "find_info")
    /\ (search_results.returned /\ ExactMatches # {}) =>
           /\ ~InfoCalled /\ pc # "find_info"
           /\ username = FirstExactMatch.username
           /\ user_id = FirstExactMatch.user_id
           /\ sec_uid = FirstExactMatch.sec_uid

C11_Witness ==
    /\ calls = <<"search", "info", "http">>
    /\ search_results.returned /\ search_results.users # <<>>
    /\ last = "found_by_info"

AtUndecodableBody ==
    /\ op \in {"videos", "search"} /\ pc = "for" /\ idx <= Len(search_requests)
    /\ buffer[search_requests[idx]].body.kind = "bad"
    /\ op = "videos" => request_num > 1

\* C12: the step that meets a captured body that is not JSON raises nothing
\* and yields nothing: the for loop moves on to the next captured request.
C12_UndecodableBodySkipped ==
    [][AtUndecodableBody =>
          /\ pc' # "error"
          /\ idx' = idx + 1
          /\ yielded' = yielded]_vars

\* The item lists of the processed, decoded, non-captcha responses among the
\* first k intercepted requests, concatenated in observation order.
RECURSIVE PagesYielded(_)
PagesYielded(k) ==
    IF k = 0 THEN <<>>
    ELSE PagesYielded(k - 1) \o
           (IF k \in consumed /\ buffer[k].body.kind = "json"
              THEN Items(k, buffer[k].body.n) ELSE <<>>)

\* C13: the yielded sequence is the concatenation, in observation order, of
\* the item lists of the processed non-captcha responses: one entity per
\* result item, none dropped, none repeated, none reordered.
C13_YieldedIsConcatenation ==
    op \in {"videos", "search"} => yielded = PagesYielded(Len(buffer))

MissingItemList == op = "liked" /\ pc = "response" /\ ~res.itemList

\* C14: in User.liked a response without "itemList" ends the run normally
\* with nothing more yielded and no further request; the privacy error is
\* logged exactly once when it is the first response (the sequence is then
\* empty) and not at all otherwise.
C14_MissingItemListEndsRun ==
    /\ [][MissingItemList =>
             /\ pc' = "done"
             /\ yielded' = yielded
             /\ privacy_logged' = privacy_logged + (IF requests_sent = 1 THEN 1 ELSE 0)]_vars
    /\ [][(op = "liked" /\ outcome = "no_itemList") => pc' # "response"]_vars
    /\ [](privacy_logged =
            IF op = "liked" /\ outcome = "no_itemList" /\ requests_sent = 1
              THEN 1 ELSE 0)
    /\ []((op = "liked" /\ outcome = "no_itemList" /\ requests_sent = 1) =>
            yielded = <<>>)

C14_Witness ==
    /\ op = "liked" /\ outcome = "no_itemList" /\ pc = "done"
    /\ requests_sent = 1 /\ privacy_logged = 1 /\ count > 0

\* C15: info_full raises NotFoundException naming the requested username, and
\* returns no userInfo, exactly when the fetched page has statusCode 404; with
\* any other status code it returns the userInfo; with the username unset it
\* raises TypeError and no HTTP fetch is made.
C15_InfoFull ==
    InfoCalled =>
        /\ search_results.term = None =>
              (exc.type = "TypeError" /\ calls = <<"search", "info">>
                 /\ page_status = -1 /\ pc = "error")
        /\ search_results.term # None =>
              /\ calls = <<"search", "info", "http">>
              /\ page_status = 404 =>
                    /\ exc = [type |-> "NotFoundException",
                              names |-> search_results.term]
                    /\ pc = "error"
                    /\ user_id = None /\ sec_uid = None
              /\ page_status # 404 =>
                    /\ exc = NoExc
                    /\ user_id = "1" /\ sec_uid = "s1"
                    /\ username = search_results.term
                    /\ pc # "find_info"

C15_Witness ==
    /\ InfoCalled /\ page_status = 404
    /\ exc.type = "NotFoundException" /\ exc.names = "alice"

\* C20: the first favorite-list request carries the caller's cursor, every
\* later one the cursor of the response just before it.
C20_CursorThreaded ==
    [][(op = "liked" /\ pc = "loop" /\ pc' = "response") =>
          query'.cursor = IF requests_sent = 0 THEN cursor0 ELSE res.cursor]_vars

C20_Witness ==
    /\ op = "liked" /\ pc = "response" /\ requests_sent = 2
    /\ query.cursor # cursor0

BrowserInteraction == {"scroll", "scroll_up", "delay", "wait_ok", "wait_failed"}

\* C18: in User.videos and Search.search_type, once the yielded count has
\* reached the requested count no scroll, wait or delay is performed any more.
C18_NoInteractionAfterCount ==
    [][(op \in {"videos", "search"} /\ count > 0 /\ amount_yielded >= count) =>
          last' \notin BrowserInteraction]_vars

SearchLoopPcs ==
    {"loop", "delay1", "capture", "for", "delay2", "scroll_up", "delay3",
     "scroll", "wait_next"}

\* C19: in Search.search_type the pull method is 'browser' wherever the loop
\* stands, and the direct-HTTP branch is never executed.
C19_PullMethodIsBrowser ==
    op = "search" =>
        /\ pull_method # "requests"
        /\ pc \in SearchLoopPcs => pull_method = "browser"
        /\ last \notin {"direct_http", "direct_http_unbound"}

C19_Witness ==
    /\ op = "search" /\ pc = "for" /\ fetched
    /\ pull_method = "browser" /\ last = "capture"

\* C16: normalization is idempotent: a second pass over a record already
\* normalized does not fail and leaves every field as the first pass left it.
C16_NormalizationIdempotent ==
    (op = "normalize" /\ norm_count = 2) =>
        /\ norm_status = "ok"
        /\ video = normalize_video(raw, users).video

\* The raw videos the normalization is specified for: createTime a number or
\* a numeric string, author a name present in the users-map.
WellFormedRaw ==
    /\ raw.createTime.v >= 0
    /\ raw.author.t = "str"
    /\ raw.author.name \in DOMAIN users

\* C17: a well-formed raw video normalizes to createTime as an integer of the
\* same value and an author object with id, uniqueId, secUid, nickname and
\* avatarThumb from the raw video and the ten remaining fields from the
\* users-map entry of the author's name.
C17_NormalizedFields ==
    (op = "normalize" /\ norm_count = 1 /\ WellFormedRaw) =>
        /\ norm_status = "ok"
        /\ video.createTime = [t |-> "int", v |-> raw.createTime.v]
        /\ video.author.t = "dict"
        /\ LET a == video.author.obj
               e == users[raw.author.name]
           IN  /\ a.id = raw.authorId
               /\ a.uniqueId = raw.author.name
               /\ a.secUid = raw.authorSecId
               /\ a.nickname = raw.nickname
               /\ a.avatarThumb = raw.avatarThumb
               /\ a.signature = e.signature
               /\ a.verified = e.verified
               /\ a.secret = e.secret
               /\ a.ftc = e.ftc
               /\ a.relation = e.relation
               /\ a.openFavorite = e.openFavorite
               /\ a.commentSetting = e.commentSetting
               /\ a.duetSetting = e.duetSetting
               /\ a.stitchSetting = e.stitchSetting
               /\ a.privateAccount = e.privateAccount

C17_Witness ==
    /\ op = "normalize" /\ norm_count = 1 /\ norm_status = "ok"
    /\ raw.createTime = [t |-> "str", v |-> 1690000000]
    /\ raw.author.name = "alice" /\ raw.authorId = "1"
    /\ video.createTime = [t |-> "int", v |-> 1690000000]
    /\ video.author.obj.id = "1"
    /\ video.author.obj.verified = users["alice"].verified

\* C21: whenever a pagination loop evaluates its test amount_yielded < count,
\* amount_yielded is the number of items yielded to the consumer so far.
C21_CounterAccurate ==
    (op \in {"videos", "liked", "search"} /\ pc = "loop") =>
        amount_yielded = Len(yielded)
====
